---- MODULE Spec2Model ----
(***************************************************************************)
(* A model of msgpack_simple: the MsgPack value type, MsgPack::encode      *)
(* (src/src/lib.rs), parser::parse with parse_array / parse_map            *)
(* (src/src/parser.rs) and ParseError::offset (src/src/error.rs).          *)
(*                                                                         *)
(* Representation.                                                         *)
(*   - A byte is a number in 0..255; a buffer (&[u8], Vec<u8>) is a        *)
(*     sequence of bytes.                                                  *)
(*   - A 64-bit machine word (u64, i64, the bits of an f64) is the         *)
(*     sequence of its 8 bytes, most significant first.  An i64 is its     *)
(*     two's-complement bit pattern, so transmute::<u64, i64> is the       *)
(*     identity on words and every comparison says whether it is signed.   *)
(*   - usize is 64 bits wide (a 64-bit target); a usize that comes from    *)
(*     the buffer is kept as a word, a usize that is the length of a       *)
(*     sequence held in memory is a number.                                *)
(*   - A MsgPack value is a record with a field kind and the payload       *)
(*     field of its variant.                                               *)
(***************************************************************************)
EXTENDS Integers, Sequences, FiniteSets, TLC

VARIABLES value, raw, encoded, parsed, followed, message, accessed, capacity,
          can_reserve, pc

vars == <<value, raw, encoded, parsed, followed, message, accessed, capacity,
          can_reserve, pc>>

(***************************************************************************)
(* Bounds of the inputs the specification draws.                           *)
(***************************************************************************)
\* longest payload of the short strings, binaries and extensions drawn
MaxPayload == 3
\* most children of a drawn array, most entries of a drawn map
MaxItems == 2
\* the integers -SmallInt..SmallInt are all drawn, as Int and as Uint
SmallInt == 300

(***************************************************************************)
(* Bytes and machine words.                                                *)
(***************************************************************************)
Byte == 0..255

Fill(n, b) == [i \in 1..n |-> b]

\* 256^k for the k a 32-bit quantity needs
Pow256(k) == CASE k = 0 -> 1 [] k = 1 -> 256 [] k = 2 -> 65536 [] k = 3 -> 16777216

\* the i64 (or, for n >= 0, u64) word of the small integer n: an integer
\* literal of the source, or a cast `x as i64` / `x as u64` of a byte
IntToWord(n) ==
    [i \in 1..8 |-> IF i <= 4 THEN (IF n < 0 THEN 255 ELSE 0)
                              ELSE (n \div Pow256(8 - i)) % 256]

\* the w low bytes of the number n, most significant first:
\* write_u8 / write_u16::<BigEndian> / write_u32::<BigEndian> of `n as uW`
WriteBE(n, w) == [i \in 1..w |-> (n \div Pow256(w - i)) % 256]

\* the w low bytes of a word, most significant first: write_iW::<BigEndian>
\* (value as iW), write_uW::<BigEndian>(value as uW), write_u64
WordLow(word, w) == SubSeq(word, 9 - w, 8)

\* unsigned order on words (u64 <, <=)
ULt(a, b) == \E i \in 1..8 : a[i] < b[i] /\ \A j \in 1..(i - 1) : a[j] = b[j]
ULe(a, b) == a = b \/ ULt(a, b)

\* signed order on words (i64 <, <=, >, >=): the unsigned order with the
\* sign bit inverted
FlipSign(a) == [a EXCEPT ![1] = (a[1] + 128) % 256]
SLt(a, b) == ULt(FlipSign(a), FlipSign(b))
SLe(a, b) == a = b \/ SLt(a, b)
SGt(a, b) == SLt(b, a)
SGe(a, b) == SLe(b, a)

\* the literals 0x8000_0000 and -0x8000_0000 of the int32 range test
Int32Limit == <<0, 0, 0, 0, 128, 0, 0, 0>>
Int32Floor == <<255, 255, 255, 255, 128, 0, 0, 0>>
\* the literal 0x8888_8888 of the uint32 range test
Uint32Limit == <<0, 0, 0, 0, 136, 136, 136, 136>>

(***************************************************************************)
(* The MsgPack enum, MapElement and Extension.                             *)
(***************************************************************************)
MsgPack_Nil == [kind |-> "Nil"]
MsgPack_Boolean(b) == [kind |-> "Boolean", b |-> b]
MsgPack_Int(w) == [kind |-> "Int", i |-> w]
MsgPack_Uint(w) == [kind |-> "Uint", u |-> w]
MsgPack_Float(bits) == [kind |-> "Float", f |-> bits]
MsgPack_String(bytes) == [kind |-> "String", s |-> bytes]
MsgPack_Binary(bytes) == [kind |-> "Binary", bin |-> bytes]
MsgPack_Array(items) == [kind |-> "Array", items |-> items]
MsgPack_Map(entries) == [kind |-> "Map", entries |-> entries]
MapElement(k, v) == [key |-> k, value |-> v]
\* type_id is an i8, kept as a number in -128..127
MsgPack_Extension(type_id, bytes) == [kind |-> "Extension", type_id |-> type_id, value |-> bytes]

(***************************************************************************)
(* MsgPack::encode, one operator per match arm.                            *)
(***************************************************************************)
\* Int arm, the one-byte forms: `value as u8`, and the transmuted
\* `value as i8`, are both the low byte of the word
IsPosFixint(v) == SGe(v, IntToWord(0)) /\ SLt(v, IntToWord(128))
IsNegFixint(v) == SLt(v, IntToWord(0)) /\ SGt(v, IntToWord(-32))

\* FitsInt8 with `value <= 0x80` for `value < 0x80`
FitsInt8_Inclusive(v) == SGe(v, IntToWord(-128)) /\ SLe(v, IntToWord(128))
FitsInt8(v) == SGe(v, IntToWord(-128)) /\ SLt(v, IntToWord(128))
FitsInt16(v) == SGe(v, IntToWord(-32768)) /\ SLt(v, IntToWord(32768))
FitsInt32(v) == SGe(v, Int32Floor) /\ SLt(v, Int32Limit)

EncodeInt(v) ==
    IF IsPosFixint(v) THEN <<v[8]>>
    ELSE IF IsNegFixint(v) THEN <<v[8]>>
    ELSE IF FitsInt8(v) THEN <<208>> \o WordLow(v, 1)
    ELSE IF FitsInt16(v) THEN <<209>> \o WordLow(v, 2)
    ELSE IF FitsInt32(v) THEN <<210>> \o WordLow(v, 4)
    ELSE <<211>> \o WordLow(v, 8)

\* EncodeUint with the fixint line `if value < 128 { return vec![value as u8] }`
\* that the source leaves commented out
EncodeUint_Fixint(v) ==
    IF ULt(v, IntToWord(128)) THEN <<v[8]>>
    ELSE IF ULe(v, IntToWord(136)) THEN <<204>> \o WordLow(v, 1)
    ELSE IF ULe(v, IntToWord(34952)) THEN <<205>> \o WordLow(v, 2)
    ELSE IF ULe(v, Uint32Limit) THEN <<206>> \o WordLow(v, 4)
    ELSE <<207>> \o WordLow(v, 8)

\* Uint arm: the limits are 0x88, 0x8888 and 0x8888_8888
EncodeUint(v) ==
    IF ULe(v, IntToWord(136)) THEN <<204>> \o WordLow(v, 1)
    ELSE IF ULe(v, IntToWord(34952)) THEN <<205>> \o WordLow(v, 2)
    ELSE IF ULe(v, Uint32Limit) THEN <<206>> \o WordLow(v, 4)
    ELSE <<207>> \o WordLow(v, 8)

\* Float arm: always float 64, the bits of the f64
EncodeFloat(bits) == <<203>> \o WordLow(bits, 8)

\* String arm: header by byte length, then the bytes
StringHeader(length) ==
    IF length < 32 THEN <<160 + length>>
    ELSE IF length <= 136 THEN <<217>> \o WriteBE(length, 1)
    ELSE IF length <= 34952 THEN <<218>> \o WriteBE(length, 2)
    ELSE <<219>> \o WriteBE(length, 4)

\* the String arm returning early, with nothing, for the empty string
EncodeString_EmptyIsNothing(bytes) ==
    IF bytes = <<>> THEN <<>> ELSE StringHeader(Len(bytes)) \o bytes

EncodeString(bytes) == StringHeader(Len(bytes)) \o bytes

\* Binary arm
BinaryHeader(length) ==
    IF length <= 136 THEN <<196>> \o WriteBE(length, 1)
    ELSE IF length <= 34952 THEN <<197>> \o WriteBE(length, 2)
    ELSE <<198>> \o WriteBE(length, 4)

EncodeBinary(bytes) == BinaryHeader(Len(bytes)) \o bytes

\* ExtensionHeader without the `length == 4` arm
ExtensionHeader_NoFixext4(length) ==
    IF length = 1 THEN <<212>>
    ELSE IF length = 2 THEN <<213>>
    ELSE IF length = 8 THEN <<215>>
    ELSE IF length = 16 THEN <<216>>
    ELSE IF length <= 136 THEN <<199>> \o WriteBE(length, 1)
    ELSE IF length <= 34952 THEN <<200>> \o WriteBE(length, 2)
    ELSE <<201>> \o WriteBE(length, 4)

\* Extension arm: transmute::<i8, u8>(type_id) is type_id mod 256
ExtensionHeader(length) ==
    IF length = 1 THEN <<212>>
    ELSE IF length = 2 THEN <<213>>
    ELSE IF length = 4 THEN <<214>>
    ELSE IF length = 8 THEN <<215>>
    ELSE IF length = 16 THEN <<216>>
    ELSE IF length <= 136 THEN <<199>> \o WriteBE(length, 1)
    ELSE IF length <= 34952 THEN <<200>> \o WriteBE(length, 2)
    ELSE <<201>> \o WriteBE(length, 4)

EncodeExtension(type_id, bytes) ==
    ExtensionHeader(Len(bytes)) \o <<type_id % 256>> \o bytes

\* Array and Map arms: the header by element / entry count
ArrayHeader(length) ==
    IF length < 16 THEN <<144 + length>>
    ELSE IF length <= 34952 THEN <<220>> \o WriteBE(length, 2)
    ELSE <<221>> \o WriteBE(length, 4)

MapHeader(length) ==
    IF length < 16 THEN <<128 + length>>
    ELSE IF length <= 34952 THEN <<222>> \o WriteBE(length, 2)
    ELSE <<223>> \o WriteBE(length, 4)

RECURSIVE encode(_)
\* `for item in value { result.append(&mut item.encode()) }`
RECURSIVE EncodeItems(_)
EncodeItems(items) ==
    IF items = <<>> THEN <<>>
    ELSE encode(Head(items)) \o EncodeItems(Tail(items))

\* `for item in value { append(item.key.encode()); append(item.value.encode()) }`
RECURSIVE EncodeEntries(_)
\* the loop that appends the value of an entry before its key
EncodeEntries_ValueFirst(entries) ==
    IF entries = <<>> THEN <<>>
    ELSE encode(Head(entries).value) \o encode(Head(entries).key)
         \o EncodeEntries(Tail(entries))

EncodeEntries(entries) ==
    IF entries = <<>> THEN <<>>
    ELSE encode(Head(entries).key) \o encode(Head(entries).value)
         \o EncodeEntries(Tail(entries))

encode(v) ==
    CASE v.kind = "Nil" -> <<192>>
      [] v.kind = "Boolean" -> <<IF v.b THEN 195 ELSE 194>>
      [] v.kind = "Int" -> EncodeInt(v.i)
      [] v.kind = "Uint" -> EncodeUint(v.u)
      [] v.kind = "Float" -> EncodeFloat(v.f)
      [] v.kind = "String" -> EncodeString(v.s)
      [] v.kind = "Binary" -> EncodeBinary(v.bin)
      [] v.kind = "Extension" -> EncodeExtension(v.type_id, v.value)
      [] v.kind = "Array" -> ArrayHeader(Len(v.items)) \o EncodeItems(v.items)
      [] v.kind = "Map" -> MapHeader(Len(v.entries)) \o EncodeEntries(v.entries)

(***************************************************************************)
(* ParseError (src/src/error.rs) and the results of the parser.            *)
(***************************************************************************)
\* Ok((value, size)); for parse_array and parse_map value is the Vec
Ok(v, size) == [kind |-> "Ok", value |-> v, size |-> size]
\* Err(ParseError { byte })
Err(byte) == [kind |-> "Err", byte |-> byte]

\* offset that drops the byte of the error it is given
offset_Replace(err, n) == Err(n)

\* ParseError::offset
offset(err, n) == Err(err.byte + n)

\* ParseError::offset_result: result.map_err(|err| err.offset(value))
offset_result(result, n) ==
    IF result.kind = "Err" THEN offset(result, n) ELSE result

(***************************************************************************)
(* Slices and the big-endian readers of the parser.                        *)
(***************************************************************************)
\* &raw[from..]
SliceFrom(bytes, from) == SubSeq(bytes, from + 1, Len(bytes))
\* raw[from..to].to_vec()
Slice(bytes, from, to) == SubSeq(bytes, from + 1, to)

\* read_8, read_16, read_32, read_64: the first w bytes of the slice,
\* most significant first, zero-extended to a u64
ReadBE(bytes, w) == Fill(8 - w, 0) \o SubSeq(bytes, 1, w)
read_8(bytes) == ReadBE(bytes, 1)
read_16(bytes) == ReadBE(bytes, 2)
read_32(bytes) == ReadBE(bytes, 4)
read_64(bytes) == ReadBE(bytes, 8)

\* a usize read from the buffer (`read_N(..) as usize`), as a number when
\* it is below 2^31
WordIsSmall(w) == SubSeq(w, 1, 4) = Fill(4, 0) /\ w[5] < 128
WordToNat(w) == w[5] * Pow256(3) + w[6] * Pow256(2) + w[7] * Pow256(1) + w[8]

\* `raw.len() < h + len`: a buffer held in memory is shorter than 2^31
\* bytes, so a len of 2^31 or more always exceeds it
TooShort(rawlen, h, len) ==
    IF WordIsSmall(len) THEN rawlen - h < WordToNat(len) ELSE TRUE

\* usize arithmetic of parse_array and parse_map on a count read from the
\* buffer: == 0, - 1 (of a count that is not zero) and * 2 (wrapping)
WordIsZero(w) == w = Fill(8, 0)
WordDec(w) ==
    LET k == CHOOSE i \in 1..8 : w[i] # 0 /\ \A j \in (i + 1)..8 : w[j] = 0
    IN [i \in 1..8 |-> IF i < k THEN w[i] ELSE IF i = k THEN w[i] - 1 ELSE 255]
WordDouble(w) ==
    [i \in 1..8 |-> (2 * w[i] + (IF i < 8 /\ w[i + 1] >= 128 THEN 1 ELSE 0)) % 256]

(***************************************************************************)
(* String::from_utf8: the well-formed byte sequences of UTF-8.             *)
(***************************************************************************)
IsCont(b) == b >= 128 /\ b <= 191

\* the length of the well-formed sequence the bytes start with, 0 if none
Utf8SeqLen(bytes) ==
    LET n == Len(bytes)
        b1 == bytes[1]
        c(i) == i <= n /\ IsCont(bytes[i])
        rng(i, lo, hi) == i <= n /\ bytes[i] >= lo /\ bytes[i] <= hi
    IN  IF b1 <= 127 THEN 1
        ELSE IF b1 >= 194 /\ b1 <= 223 THEN (IF c(2) THEN 2 ELSE 0)
        ELSE IF b1 = 224 THEN (IF rng(2, 160, 191) /\ c(3) THEN 3 ELSE 0)
        ELSE IF b1 = 237 THEN (IF rng(2, 128, 159) /\ c(3) THEN 3 ELSE 0)
        ELSE IF b1 >= 225 /\ b1 <= 239 THEN (IF c(2) /\ c(3) THEN 3 ELSE 0)
        ELSE IF b1 = 240 THEN (IF rng(2, 144, 191) /\ c(3) /\ c(4) THEN 4 ELSE 0)
        ELSE IF b1 >= 241 /\ b1 <= 243 THEN (IF c(2) /\ c(3) /\ c(4) THEN 4 ELSE 0)
        ELSE IF b1 = 244 THEN (IF rng(2, 128, 143) /\ c(3) /\ c(4) THEN 4 ELSE 0)
        ELSE 0

\* The bytes are well formed iff every byte that is not a continuation
\* byte starts a well-formed sequence and every continuation byte belongs
\* to the sequence started by one of the 3 bytes before it.
IsUtf8(bytes) ==
    \A i \in 1..Len(bytes) :
        IF IsCont(bytes[i])
        THEN \E j \in 1..(i - 1) :
                /\ i - j <= 3
                /\ ~IsCont(bytes[j])
                /\ j + Utf8SeqLen(SubSeq(bytes, j, Len(bytes))) > i
        ELSE Utf8SeqLen(SubSeq(bytes, i, Len(bytes))) > 0

(***************************************************************************)
(* `value as f64` of an f32: the IEEE-754 single to double conversion on   *)
(* bit patterns (sign, 8 -> 11 bit exponent, 23 -> 52 bit fraction).       *)
(***************************************************************************)
Pow2(k) == CASE k = 0 -> 1 [] k = 1 -> 2 [] k = 2 -> 4 [] k = 3 -> 8
             [] k = 4 -> 16 [] k = 5 -> 32 [] k = 6 -> 64 [] k = 7 -> 128
             [] k = 8 -> 256 [] k = 9 -> 512 [] k = 10 -> 1024

BitsOf(bytes) ==
    [i \in 1..(8 * Len(bytes)) |->
        (bytes[((i - 1) \div 8) + 1] \div Pow2(7 - ((i - 1) % 8))) % 2]

BitsOfNat(n, w) == [i \in 1..w |-> (n \div Pow2(w - i)) % 2]

RECURSIVE NatOfBits(_)
NatOfBits(bits) ==
    IF bits = <<>> THEN 0
    ELSE 2 * NatOfBits(SubSeq(bits, 1, Len(bits) - 1)) + bits[Len(bits)]

BytesOfBits(bits) ==
    [j \in 1..(Len(bits) \div 8) |-> NatOfBits(SubSeq(bits, 8 * j - 7, 8 * j))]

\* raw_value is the u32 in the low 4 bytes of the word read_32 returned
f32_as_f64(raw_value) ==
    LET b == BitsOf(WordLow(raw_value, 4))
        e == NatOfBits(SubSeq(b, 2, 9))
        m == SubSeq(b, 10, 32)
        zero == m = Fill(23, 0)
        k == CHOOSE i \in 1..23 : m[i] = 1 /\ \A j \in 1..(i - 1) : m[j] = 0
        exp == IF e = 255 THEN 2047
               ELSE IF e = 0 THEN (IF zero THEN 0 ELSE 897 - k)
               ELSE e + 896
        frac == IF e = 255 /\ ~zero THEN <<1>> \o SubSeq(m, 2, 23) \o Fill(29, 0)
                ELSE IF e = 0 /\ ~zero THEN SubSeq(m, k + 1, 23) \o Fill(29 + k, 0)
                ELSE m \o Fill(29, 0)
    IN  BytesOfBits(<<b[1]>> \o BitsOfNat(exp, 11) \o frac)

(***************************************************************************)
(* parser::parse, parse_array and parse_map (src/src/parser.rs).           *)
(***************************************************************************)
RECURSIVE parse(_)

\* the loop of parse_array: `remaining` iterations of `for _ in 0..length`
\* are left, cursor and result are the loop's variables
RECURSIVE ParseArrayLoop(_, _, _, _)
\* the loop without offset_result: the error of a child is returned as the
\* child reported it
ParseArrayLoop_NoCursor(bytes, remaining, cursor, result) ==
    IF WordIsZero(remaining) THEN Ok(result, cursor)
    ELSE LET r == parse(SliceFrom(bytes, cursor))
         IN  IF r.kind # "Ok" THEN r
             ELSE ParseArrayLoop(bytes, WordDec(remaining), cursor + r.size,
                                 Append(result, r.value))

ParseArrayLoop(bytes, remaining, cursor, result) ==
    IF WordIsZero(remaining) THEN Ok(result, cursor)
    ELSE LET r == offset_result(parse(SliceFrom(bytes, cursor)), cursor)
         IN  IF r.kind # "Ok" THEN r
             ELSE ParseArrayLoop(bytes, WordDec(remaining), cursor + r.size,
                                 Append(result, r.value))

\* parse_array with the loop `for _ in 1..length`, one turn short
parse_array_FromOne(bytes, length) ==
    IF WordIsZero(length) THEN Ok(<<>>, 0)
    ELSE ParseArrayLoop(bytes, WordDec(length), 0, <<>>)

\* parse_array: `for _ in 0..length`, from the cursor 0 and the empty result
parse_array(bytes, length) == ParseArrayLoop(bytes, length, 0, <<>>)

\* parse_map: the 2 * length values of parse_array paired in order; the
\* unreachable!() is a panic
parse_map_Swapped(bytes, length) ==
    LET r == parse_array(bytes, WordDouble(length))
    IN  IF r.kind # "Ok" THEN r
        ELSE IF IntToWord(Len(r.value)) # WordDouble(length)
             THEN [kind |-> "Panic", what |-> "unreachable"]
        ELSE Ok([i \in 1..(Len(r.value) \div 2) |->
                    MapElement(r.value[2 * i], r.value[2 * i - 1])], r.size)

parse_map(bytes, length) ==
    LET r == parse_array(bytes, WordDouble(length))
    IN  IF r.kind # "Ok" THEN r
        ELSE IF IntToWord(Len(r.value)) # WordDouble(length)
             THEN [kind |-> "Panic", what |-> "unreachable"]
        ELSE Ok([i \in 1..(Len(r.value) \div 2) |->
                    MapElement(r.value[2 * i - 1], r.value[2 * i])], r.size)

\* fixmap, map 16, map 32: h is the size of the header
ParseMap(bytes, h, length) ==
    LET r == offset_result(parse_map(SliceFrom(bytes, h), length), h)
    IN  IF r.kind # "Ok" THEN r ELSE Ok(MsgPack_Map(r.value), h + r.size)

\* fixarray, array 16, array 32
ParseArray(bytes, h, length) ==
    LET r == offset_result(parse_array(SliceFrom(bytes, h), length), h)
    IN  IF r.kind # "Ok" THEN r ELSE Ok(MsgPack_Array(r.value), h + r.size)

\* ParseStr with from_utf8_unchecked in the place of from_utf8
ParseStr_Unchecked(bytes, h, len) ==
    IF TooShort(Len(bytes), h, len) THEN Err(h)
    ELSE Ok(MsgPack_String(Slice(bytes, h, h + WordToNat(len))), h + WordToNat(len))

\* fixstr (h = 1, the length is in the tag) and str 8/16/32 (h = 1 + the
\* width of the length field); from_utf8 fails with byte h
ParseStr(bytes, h, len) ==
    IF TooShort(Len(bytes), h, len) THEN Err(h)
    ELSE LET payload == Slice(bytes, h, h + WordToNat(len))
         IN  IF IsUtf8(payload) THEN Ok(MsgPack_String(payload), h + WordToNat(len))
             ELSE Err(h)

\* ParseBin that reports a short payload at byte 1, as the check of the
\* length field does
ParseBin_Byte1(bytes, h, len) ==
    IF TooShort(Len(bytes), h, len) THEN Err(1)
    ELSE Ok(MsgPack_Binary(Slice(bytes, h, h + WordToNat(len))), h + WordToNat(len))

\* bin 8/16/32, after the check of the length field
ParseBin(bytes, h, len) ==
    IF TooShort(Len(bytes), h, len) THEN Err(h)
    ELSE Ok(MsgPack_Binary(Slice(bytes, h, h + WordToNat(len))), h + WordToNat(len))

\* transmute::<u8, i8>
U8ToI8(b) == IF b >= 128 THEN b - 256 ELSE b

\* ParseExt that reports a short payload at the index where the payload
\* would end
ParseExt_EndOfPayload(bytes, w) ==
    LET h == w + 2
    IN  IF Len(bytes) < h THEN Err(1)
        ELSE LET len == ReadBE(SliceFrom(bytes, 1), w)
                 type_id == U8ToI8(bytes[h])
             IN  IF TooShort(Len(bytes), h, len)
                 THEN Err(h + (IF WordIsSmall(len) THEN WordToNat(len) ELSE 0))
                 ELSE Ok(MsgPack_Extension(type_id, Slice(bytes, h, h + WordToNat(len))),
                         h + WordToNat(len))

\* ext 8/16/32 with a length field of w bytes: the tag, the length field
\* and the type id make h = w + 2 bytes
ParseExt(bytes, w) ==
    LET h == w + 2
    IN  IF Len(bytes) < h THEN Err(1)
        ELSE LET len == ReadBE(SliceFrom(bytes, 1), w)
                 type_id == U8ToI8(bytes[h])
             IN  IF TooShort(Len(bytes), h, len) THEN Err(h)
                 ELSE Ok(MsgPack_Extension(type_id, Slice(bytes, h, h + WordToNat(len))),
                         h + WordToNat(len))

\* ParseFixext that takes the payload up to the end of the buffer
ParseFixext_ToEnd(bytes, n) ==
    IF Len(bytes) < 2 + n THEN Err(1)
    ELSE Ok(MsgPack_Extension(U8ToI8(bytes[2]), SliceFrom(bytes, 2)), Len(bytes))

\* fixext 1/2/4/8/16 with n bytes of payload
ParseFixext(bytes, n) ==
    IF Len(bytes) < 2 + n THEN Err(1)
    ELSE Ok(MsgPack_Extension(U8ToI8(bytes[2]), Slice(bytes, 2, 2 + n)), 2 + n)

\* uint 8/16/32/64 with w bytes of payload
ParseUint(bytes, w) ==
    IF Len(bytes) < 1 + w THEN Err(1)
    ELSE Ok(MsgPack_Uint(ReadBE(SliceFrom(bytes, 1), w)), 1 + w)

\* int 8/16/32/64 with w bytes of payload: the u64 that read_N returns,
\* transmuted to i64
ParseInt(bytes, w) ==
    IF Len(bytes) < 1 + w THEN Err(1)
    ELSE Ok(MsgPack_Int(ReadBE(SliceFrom(bytes, 1), w)), 1 + w)

\* float 32 that reports the 9 bytes of a float 64
ParseFloat32_Size9(bytes) ==
    IF Len(bytes) < 5 THEN Err(1)
    ELSE Ok(MsgPack_Float(f32_as_f64(read_32(SliceFrom(bytes, 1)))), 9)

\* float 32 and float 64
ParseFloat32(bytes) ==
    IF Len(bytes) < 5 THEN Err(1)
    ELSE Ok(MsgPack_Float(f32_as_f64(read_32(SliceFrom(bytes, 1)))), 5)

ParseFloat64(bytes) ==
    IF Len(bytes) < 9 THEN Err(1)
    ELSE Ok(MsgPack_Float(read_64(SliceFrom(bytes, 1))), 9)

\* positive fixint: MsgPack::Int(first_byte as i64)
ParsePosFixint(first_byte) == Ok(MsgPack_Int(IntToWord(first_byte)), 1)

\* negative fixint without the - 256
ParseNegFixint_NoBias(first_byte) == Ok(MsgPack_Int(IntToWord(first_byte)), 1)

\* negative fixint: MsgPack::Int(first_byte as i64 - 256)
ParseNegFixint(first_byte) == Ok(MsgPack_Int(IntToWord(first_byte - 256)), 1)

\* ParseLen without the branch of str 32: the tag 0xdb gets to the last line
\* of parse
ParseLen_NoStr32(bytes, w, what) ==
    IF what = "str" /\ w = 4 THEN Err(0)
    ELSE IF Len(bytes) < 1 + w THEN Err(1)
    ELSE LET len == ReadBE(SliceFrom(bytes, 1), w)
         IN  CASE what = "bin" -> ParseBin(bytes, 1 + w, len)
               [] what = "str" -> ParseStr(bytes, 1 + w, len)
               [] what = "array" -> ParseArray(bytes, 1 + w, len)
               [] what = "map" -> ParseMap(bytes, 1 + w, len)

\* the branches with a length field of w bytes after the tag
ParseLen(bytes, w, what) ==
    IF Len(bytes) < 1 + w THEN Err(1)
    ELSE LET len == ReadBE(SliceFrom(bytes, 1), w)
         IN  CASE what = "bin" -> ParseBin(bytes, 1 + w, len)
               [] what = "str" -> ParseStr(bytes, 1 + w, len)
               [] what = "array" -> ParseArray(bytes, 1 + w, len)
               [] what = "map" -> ParseMap(bytes, 1 + w, len)

parse(bytes) ==
    IF Len(bytes) < 1 THEN Err(0)
    ELSE LET first_byte == bytes[1] IN
    IF first_byte <= 127 THEN ParsePosFixint(first_byte)
    ELSE IF first_byte >= 224 THEN ParseNegFixint(first_byte)
    ELSE IF first_byte >= 128 /\ first_byte <= 143
         THEN ParseMap(bytes, 1, IntToWord(first_byte % 16))
    ELSE IF first_byte >= 144 /\ first_byte <= 159
         THEN ParseArray(bytes, 1, IntToWord(first_byte % 16))
    ELSE IF first_byte >= 160 /\ first_byte <= 191
         THEN ParseStr(bytes, 1, IntToWord(first_byte % 32))
    ELSE IF first_byte = 192 THEN Ok(MsgPack_Nil, 1)
    ELSE IF first_byte = 193 THEN Err(0)
    ELSE IF first_byte = 194 THEN Ok(MsgPack_Boolean(FALSE), 1)
    ELSE IF first_byte = 195 THEN Ok(MsgPack_Boolean(TRUE), 1)
    ELSE IF first_byte = 196 THEN ParseLen(bytes, 1, "bin")
    ELSE IF first_byte = 197 THEN ParseLen(bytes, 2, "bin")
    ELSE IF first_byte = 198 THEN ParseLen(bytes, 4, "bin")
    ELSE IF first_byte = 199 THEN ParseExt(bytes, 1)
    ELSE IF first_byte = 200 THEN ParseExt(bytes, 2)
    ELSE IF first_byte = 201 THEN ParseExt(bytes, 4)
    ELSE IF first_byte = 202 THEN ParseFloat32(bytes)
    ELSE IF first_byte = 203 THEN ParseFloat64(bytes)
    ELSE IF first_byte = 204 THEN ParseUint(bytes, 1)
    ELSE IF first_byte = 205 THEN ParseUint(bytes, 2)
    ELSE IF first_byte = 206 THEN ParseUint(bytes, 4)
    ELSE IF first_byte = 207 THEN ParseUint(bytes, 8)
    ELSE IF first_byte = 208 THEN ParseInt(bytes, 1)
    ELSE IF first_byte = 209 THEN ParseInt(bytes, 2)
    ELSE IF first_byte = 210 THEN ParseInt(bytes, 4)
    ELSE IF first_byte = 211 THEN ParseInt(bytes, 8)
    ELSE IF first_byte = 212 THEN ParseFixext(bytes, 1)
    ELSE IF first_byte = 213 THEN ParseFixext(bytes, 2)
    ELSE IF first_byte = 214 THEN ParseFixext(bytes, 4)
    ELSE IF first_byte = 215 THEN ParseFixext(bytes, 8)
    ELSE IF first_byte = 216 THEN ParseFixext(bytes, 16)
    ELSE IF first_byte = 217 THEN ParseLen(bytes, 1, "str")
    ELSE IF first_byte = 218 THEN ParseLen(bytes, 2, "str")
    ELSE IF first_byte = 219 THEN ParseLen(bytes, 4, "str")
    ELSE IF first_byte = 220 THEN ParseLen(bytes, 2, "array")
    ELSE IF first_byte = 221 THEN ParseLen(bytes, 4, "array")
    ELSE IF first_byte = 222 THEN ParseLen(bytes, 2, "map")
    ELSE IF first_byte = 223 THEN ParseLen(bytes, 4, "map")
    ELSE Err(0)

\* the conditions on first_byte of the branches of parse, in the order of
\* the source, each as the range <<low, high>> of the bytes it accepts: the
\* five ranges of the fix formats, then one condition per tag 0xc0..0xdf
TagRanges ==
    <<<<0, 127>>, <<224, 255>>, <<128, 143>>, <<144, 159>>, <<160, 191>>>>
    \o [i \in 1..32 |-> <<191 + i, 191 + i>>]

\* the branches whose condition holds of first_byte
Branches(first_byte) ==
    {i \in DOMAIN TagRanges :
        TagRanges[i][1] <= first_byte /\ first_byte <= TagRanges[i][2]}

\* the values of cursor in parse_array: 0, and the value after each
\* `cursor += size`, up to the end of the loop or the child that fails
RECURSIVE CursorTrace(_, _, _, _)
CursorTrace(bytes, remaining, cursor, trace) ==
    IF WordIsZero(remaining) THEN trace
    ELSE LET r == parse(SliceFrom(bytes, cursor))
         IN  IF r.kind # "Ok" THEN trace
             ELSE CursorTrace(bytes, WordDec(remaining), cursor + r.size,
                              Append(trace, cursor + r.size))

(***************************************************************************)
(* Vec::with_capacity in parse_array and parse_map.  The capacity is the   *)
(* count of the header, reserved before any child is decoded.              *)
(***************************************************************************)
\* the larger of two usize
UMax(a, b) == IF ULt(a, b) THEN b ELSE a

\* the header of an array or map that is complete: its size h and the
\* capacity parse_array asks for, which is the count of an array and twice
\* the count of a map (parse_map calls parse_array(&raw, length * 2) and
\* then asks for length, which is less); h = 0 when there is none
ReservingHeader(bytes) ==
    IF Len(bytes) < 1 THEN [h |-> 0]
    ELSE LET first_byte == bytes[1] IN
    IF first_byte >= 128 /\ first_byte <= 143
    THEN [h |-> 1, slots |-> WordDouble(IntToWord(first_byte % 16))]
    ELSE IF first_byte >= 144 /\ first_byte <= 159
         THEN [h |-> 1, slots |-> IntToWord(first_byte % 16)]
    ELSE IF first_byte = 220 /\ Len(bytes) >= 3
         THEN [h |-> 3, slots |-> read_16(SliceFrom(bytes, 1))]
    ELSE IF first_byte = 221 /\ Len(bytes) >= 5
         THEN [h |-> 5, slots |-> read_32(SliceFrom(bytes, 1))]
    ELSE IF first_byte = 222 /\ Len(bytes) >= 3
         THEN [h |-> 3, slots |-> WordDouble(read_16(SliceFrom(bytes, 1)))]
    ELSE IF first_byte = 223 /\ Len(bytes) >= 5
         THEN [h |-> 5, slots |-> WordDouble(read_32(SliceFrom(bytes, 1)))]
    ELSE [h |-> 0]

\* the largest capacity that the calls of Vec::with_capacity made while
\* parse(bytes) runs ask for; 0 when there is no such call
RECURSIVE LargestCapacity(_)
\* the loop of parse_array, after Vec::with_capacity: most is the largest
\* capacity asked for so far
RECURSIVE CapacityLoop(_, _, _, _)
CapacityLoop(bytes, remaining, cursor, most) ==
    IF WordIsZero(remaining) THEN most
    ELSE LET slice == SliceFrom(bytes, cursor)
         IN  CHOOSE c \in {IF r.kind # "Ok" THEN m
                           ELSE CapacityLoop(bytes, WordDec(remaining), cursor + r.size, m) :
                              r \in {parse(slice)},
                              m \in {UMax(most, inner) : inner \in {LargestCapacity(slice)}}} :
                 TRUE

LargestCapacity(bytes) ==
    LET header == ReservingHeader(bytes)
    IN  IF header.h = 0 THEN Fill(8, 0)
        ELSE CapacityLoop(SliceFrom(bytes, header.h), header.slots, 0, header.slots)

\* 2^31 slots: on a target with 32 bit pointers a Vec of that capacity is
\* larger than isize::MAX bytes and with_capacity panics with "capacity
\* overflow"; on a target with 64 bit pointers it is tens of GiB, which
\* the allocator may refuse, and the process aborts
RefusableCapacity == <<0, 0, 0, 0, 128, 0, 0, 0>>

\* with_capacity does not return
CapacityPanic == [kind |-> "Panic", what |-> "capacity"]

\* what a call that decodes a buffer returns: result, unless the largest
\* capacity it asks for is one that the build and the allocator do not grant
Returned(result, largest, granted) ==
    IF ~granted /\ ULe(RefusableCapacity, largest) THEN CapacityPanic
    ELSE result

\* MsgPack::parse: the value parser::parse returns without its length, or
\* the error parser::parse returns
MsgPack_parse(bytes) ==
    LET result == parse(bytes)
    IN  IF result.kind = "Ok" THEN [kind |-> "Ok", value |-> result.value]
        ELSE result

(***************************************************************************)
(* The accessors of MsgPack.  is_X borrows the value; as_X consumes it     *)
(* and returns the payload, or a ConversionError that owns the value.      *)
(***************************************************************************)
\* Result::Ok of an accessor
AsOk(payload) == [kind |-> "Ok", value |-> payload]

\* ConversionError { original, attempted }
ConversionError(original, attempted) ==
    [kind |-> "ConversionError", original |-> original, attempted |-> attempted]

\* ConversionError::recover
recover(error) == error.original

\* the struct Extension { type_id, value } that MsgPack::Extension holds
Extension(type_id, bytes) == [type_id |-> type_id, value |-> bytes]

is_int(v) == v.kind = "Int"

as_int(v) ==
    IF v.kind = "Int" THEN AsOk(v.i) ELSE ConversionError(v, "int")

is_uint(v) == v.kind = "Uint"

is_some_int(v) == v.kind = "Uint" \/ v.kind = "Int"

\* the u64 of a Uint is cast with `as i64`, which keeps the 64 bits
as_some_int(v) ==
    IF v.kind = "Int" THEN AsOk(v.i)
    ELSE IF v.kind = "Uint" THEN AsOk(v.u)
    ELSE ConversionError(v, "int")

\* as_uint whose error names the conversion of as_int
as_uint_IntLabel(v) ==
    IF v.kind = "Uint" THEN AsOk(v.u) ELSE ConversionError(v, "int")

as_uint(v) ==
    IF v.kind = "Uint" THEN AsOk(v.u) ELSE ConversionError(v, "uint")

is_float(v) == v.kind = "Float"

as_float(v) ==
    IF v.kind = "Float" THEN AsOk(v.f) ELSE ConversionError(v, "float")

is_boolean(v) == v.kind = "Boolean"

as_boolean(v) ==
    IF v.kind = "Boolean" THEN AsOk(v.b) ELSE ConversionError(v, "boolean")

\* there is no as_nil
is_nil(v) == v.kind = "Nil"

is_string(v) == v.kind = "String"

as_string(v) ==
    IF v.kind = "String" THEN AsOk(v.s) ELSE ConversionError(v, "string")

is_binary(v) == v.kind = "Binary"

as_binary(v) ==
    IF v.kind = "Binary" THEN AsOk(v.bin) ELSE ConversionError(v, "binary")

is_array(v) == v.kind = "Array"

as_array(v) ==
    IF v.kind = "Array" THEN AsOk(v.items) ELSE ConversionError(v, "array")

is_map(v) == v.kind = "Map"

as_map(v) ==
    IF v.kind = "Map" THEN AsOk(v.entries) ELSE ConversionError(v, "map")

is_extension(v) == v.kind = "Extension"

as_extension(v) ==
    IF v.kind = "Extension" THEN AsOk(Extension(v.type_id, v.value)) ELSE ConversionError(v, "extension")

\* the pairs of accessors, by the name they share
Accessors == {"int", "uint", "float", "boolean", "string", "binary", "array", "map", "extension", "some_int", "nil"}

\* v.is_X()
IsAccessor(name, v) ==
    CASE name = "int" -> is_int(v)
      [] name = "uint" -> is_uint(v)
      [] name = "float" -> is_float(v)
      [] name = "boolean" -> is_boolean(v)
      [] name = "string" -> is_string(v)
      [] name = "binary" -> is_binary(v)
      [] name = "array" -> is_array(v)
      [] name = "map" -> is_map(v)
      [] name = "extension" -> is_extension(v)
      [] name = "some_int" -> is_some_int(v)
      [] name = "nil" -> is_nil(v)

\* v.as_X(); Nil has no payload to return and no as_nil
AsAccessor(name, v) ==
    CASE name = "int" -> as_int(v)
      [] name = "uint" -> as_uint(v)
      [] name = "float" -> as_float(v)
      [] name = "boolean" -> as_boolean(v)
      [] name = "string" -> as_string(v)
      [] name = "binary" -> as_binary(v)
      [] name = "array" -> as_array(v)
      [] name = "map" -> as_map(v)
      [] name = "extension" -> as_extension(v)
      [] name = "some_int" -> as_some_int(v)
      [] name = "nil" -> [kind |-> "None"]

(***************************************************************************)
(* The values the specification encodes.                                   *)
(***************************************************************************)
\* all sequences over S of length at most n
SeqsUpTo(S, n) == UNION {[1..k -> S] : k \in 0..n}

\* words at and around the limits of the 16, 32 and 64 bit ranges
EdgeWords ==
    {IntToWord(n) : n \in {32767, 32768, 34952, 34953, 65535, 65536,
                           -32768, -32769, 2147483647}}
    \cup {Int32Limit, Int32Floor, Uint32Limit,
          <<0, 0, 0, 0, 136, 136, 136, 137>>,
          <<0, 0, 0, 0, 255, 255, 255, 255>>,
          <<0, 0, 0, 1, 0, 0, 0, 0>>,
          <<255, 255, 255, 255, 127, 255, 255, 255>>,
          <<127, 255, 255, 255, 255, 255, 255, 255>>,
          <<128, 0, 0, 0, 0, 0, 0, 0>>,
          <<255, 255, 255, 255, 255, 255, 255, 255>>}

IntValues ==
    {MsgPack_Int(IntToWord(n)) : n \in (-SmallInt)..SmallInt}
    \cup {MsgPack_Int(w) : w \in EdgeWords}

UintValues ==
    {MsgPack_Uint(IntToWord(n)) : n \in 0..SmallInt}
    \cup {MsgPack_Uint(w) : w \in EdgeWords}

\* 1.0, -0.0, an infinity and 1.42 (the float of the parser's test)
FloatValues ==
    {MsgPack_Float(w) : w \in {<<63, 240, 0, 0, 0, 0, 0, 0>>,
                               <<128, 0, 0, 0, 0, 0, 0, 0>>,
                               <<127, 240, 0, 0, 0, 0, 0, 0>>,
                               <<63, 246, 184, 81, 235, 133, 30, 184>>}}

\* payload lengths at and around the limits of the length fields
LongLens == {4, 5, 8, 16, 17, 31, 32, 33, 136, 137, 255, 256}

\* a String holds valid UTF-8: "a" is 97, U+00E9 is 195 169
StringValues ==
    {MsgPack_String(b) : b \in {x \in SeqsUpTo({97, 195, 169}, MaxPayload) : IsUtf8(x)}}
    \cup {MsgPack_String(Fill(n, 97)) : n \in LongLens}

BinaryValues ==
    {MsgPack_Binary(b) : b \in SeqsUpTo({0, 255}, MaxPayload)}
    \cup {MsgPack_Binary(Fill(n, 66)) : n \in LongLens}

ExtensionValues ==
    {MsgPack_Extension(t, Fill(n, 50)) :
        t \in {-128, -1, 0, 27, 127}, n \in (0..MaxPayload) \cup LongLens}

Scalars ==
    {MsgPack_Nil, MsgPack_Boolean(FALSE), MsgPack_Boolean(TRUE)}
    \cup IntValues \cup UintValues \cup StringValues \cup BinaryValues
    \cup ExtensionValues

\* the children of the drawn arrays and maps
Leaves ==
    {MsgPack_Nil, MsgPack_Boolean(TRUE), MsgPack_Int(IntToWord(1)),
     MsgPack_Int(IntToWord(-1)), MsgPack_Uint(IntToWord(2)),
     MsgPack_String(<<97>>), MsgPack_Binary(<<66, 255>>),
     MsgPack_Extension(2, <<50, 74, 103, 17>>)}

Entries ==
    {MapElement(k, v) :
        k \in {MsgPack_String(<<97>>), MsgPack_Int(IntToWord(1)),
               MsgPack_Array(<<MsgPack_Nil>>)},
        v \in {MsgPack_Nil, MsgPack_Uint(IntToWord(2)), MsgPack_Binary(<<66>>)}}

FlatArrays == {MsgPack_Array(items) : items \in SeqsUpTo(Leaves, MaxItems)}
FlatMaps == {MsgPack_Map(entries) : entries \in SeqsUpTo(Entries, MaxItems)}

\* arrays and maps of 15, 16 and 17 children, the limit of the fix forms
WideValues ==
    {MsgPack_Array(Fill(n, MsgPack_Nil)) : n \in {15, 16, 17}}
    \cup {MsgPack_Map(Fill(n, MapElement(MsgPack_Int(IntToWord(n)), MsgPack_Nil))) :
             n \in {15, 16, 17}}

\* arrays of arrays and maps, maps with array and map values
Inner ==
    {MsgPack_Array(<<>>), MsgPack_Array(<<MsgPack_Int(IntToWord(1)), MsgPack_Nil>>),
     MsgPack_Map(<<MapElement(MsgPack_String(<<97>>), MsgPack_Boolean(TRUE))>>),
     MsgPack_String(<<97, 97>>)}

NestedValues ==
    {MsgPack_Array(items) : items \in SeqsUpTo(Inner, MaxItems)}
    \cup {MsgPack_Map(<<MapElement(k, v)>>) : k \in Inner, v \in Inner}
    \cup {MsgPack_Array(<<MsgPack_Array(<<x>>)>>) : x \in Inner}

Values ==
    Scalars \cup FloatValues \cup FlatArrays \cup FlatMaps \cup WideValues
    \cup NestedValues

(***************************************************************************)
(* The buffers the specification parses.                                   *)
(***************************************************************************)
Prefixes(b) == {SubSeq(b, 1, n) : n \in 0..Len(b)}

\* every buffer of one byte: every tag with nothing after it
OneByte == {<<b>> : b \in Byte}

\* float 32/64, uint 8..64 and int 8..64 (tags 0xca..0xd3) with a payload
\* of the tag's width, and every truncation of it
NumWidth(tag) ==
    CASE tag \in {204, 208} -> 1
      [] tag \in {205, 209} -> 2
      [] tag \in {202, 206, 210} -> 4
      [] tag \in {203, 207, 211} -> 8

NumPayloads(w) ==
    {<<first>> \o Fill(w - 1, rest) : first \in {0, 1, 63, 127, 128, 255}, rest \in {0, 255}}

NumBuffers ==
    UNION {Prefixes(<<tag>> \o p \o t) :
              tag \in 202..211, p \in UNION {NumPayloads(w) : w \in {1, 2, 4, 8}},
              t \in {<<>>, <<193>>}}

\* the length fields of w bytes: the lengths 0..MaxPayload + 1 and the
\* largest one
LenFields(w) == {WriteBE(n, w) : n \in 0..(MaxPayload + 1)} \cup {Fill(w, 255)}

\* bin 8/16/32 and str 8/16/32: the tag, a length field and a payload that
\* may be shorter or longer than declared, valid UTF-8 or not
LenBuffers ==
    UNION {UNION {Prefixes(<<t[1]>> \o lf) \cup {<<t[1]>> \o lf \o payload :
                     payload \in SeqsUpTo({97, 195, 169}, MaxPayload)} :
                  lf \in LenFields(t[2])} :
           t \in {<<196, 1>>, <<197, 2>>, <<198, 4>>, <<217, 1>>, <<218, 2>>, <<219, 4>>}}

\* fixstr: the length is in the tag
FixstrBuffers ==
    {<<160 + n>> \o payload :
        n \in (0..(MaxPayload + 1)) \cup {31},
        payload \in SeqsUpTo({97, 195, 169}, MaxPayload)}

\* ext 8/16/32: the tag, a length field, then the type id and the payload
ExtBuffers ==
    UNION {UNION {Prefixes(<<t[1]>> \o lf) \cup {<<t[1]>> \o lf \o rest :
                     rest \in SeqsUpTo({2, 255}, MaxPayload + 1)} :
                  lf \in LenFields(t[2])} :
           t \in {<<199, 1>>, <<200, 2>>, <<201, 4>>}}

\* fixext 1/2/4/8/16 and every truncation
FixextBuffers ==
    UNION {Prefixes(<<tag, 255>> \o Fill(17, 7)) : tag \in 212..216}

\* the headers of arrays and maps with the count n
ContainerHeaders(n) ==
    {<<144 + n>>, <<220>> \o WriteBE(n, 2), <<221>> \o WriteBE(n, 4),
     <<128 + n>>, <<222>> \o WriteBE(n, 2), <<223>> \o WriteBE(n, 4)}

\* counts no buffer can hold
HugeHeaders ==
    {<<220, 255, 255>>, <<221, 255, 255, 255, 255>>, <<221, 128, 0, 0, 0>>,
     <<222, 255, 255>>, <<223, 255, 255, 255, 255>>, <<223, 128, 0, 0, 0>>,
     <<223, 0, 1, 0, 0>>}

\* what follows a header: complete values (1, "a"), the header of a nested
\* array, and values that cannot be decoded (the reserved tag, a bin 8
\* that declares 2 bytes, a str 8 that is not UTF-8)
Pieces == {<<1>>, <<161, 97>>, <<145>>, <<193>>, <<196, 2>>, <<217, 1, 255>>}

RECURSIVE Concat(_)
Concat(seqs) == IF seqs = <<>> THEN <<>> ELSE Head(seqs) \o Concat(Tail(seqs))

Bodies == {Concat(ps) : ps \in SeqsUpTo(Pieces, MaxItems + 1)}

ContainerBuffers ==
    {h \o body : h \in UNION {ContainerHeaders(n) : n \in 0..(MaxItems + 1)}, body \in Bodies}
    \cup {h \o body : h \in HugeHeaders, body \in {<<>>, <<1>>, <<1, 1, 193>>}}
    \cup UNION {Prefixes(h) : h \in HugeHeaders}

\* what may follow a value in its buffer
Trailers == {<<>>, <<193>>, <<0, 255>>}

\* a one-byte encoding or the reserved tag, and what follows it
FollowedBytes ==
    {<<first>> \o t : first \in {0, 1, 127, 192, 193, 194, 195, 224, 255}, t \in Trailers}

\* well-formed and ill-formed UTF-8 sequences of 1 to 4 bytes: "a", U+00E9,
\* U+0800, U+10000, a lone continuation byte, a lead byte without
\* continuation, overlong forms, a surrogate, a scalar value above
\* U+10FFFF and a byte that is never valid
Utf8Samples ==
    {<<97>>, <<195, 169>>, <<224, 160, 128>>, <<240, 144, 128, 128>>,
     <<128>>, <<195>>, <<195, 97>>, <<192, 128>>, <<224, 128, 128>>,
     <<240, 128, 128, 128>>, <<237, 160, 128>>, <<244, 144, 128, 128>>,
     <<255>>, <<97, 255>>}

\* the samples as the payload of a fixstr and of str 8/16/32, alone and
\* followed by a byte
Utf8Buffers ==
    UNION {{h \o payload \o t :
               t \in {<<>>, <<97>>},
               h \in {<<160 + Len(payload)>>, <<217, Len(payload)>>,
                      <<218, 0, Len(payload)>>, <<219, 0, 0, 0, Len(payload)>>}} :
           payload \in Utf8Samples}

\* complete maps: the map of tests::decode_from_json, maps with two
\* entries whose keys are distinct, descending and equal, and maps whose
\* keys are an array, a map and an extension
MapBuffers ==
    {<<130, 167, 99, 111, 109, 112, 97, 99, 116, 195, 166, 115, 99, 104, 101,
       109, 97, 147, 1, 2, 203, 63, 245, 30, 184, 81, 235, 133, 31>>,
     <<130, 161, 97, 1, 161, 98, 2>>,
     <<130, 161, 97, 1, 161, 97, 2>>,
     <<222, 0, 2, 2, 1, 1, 2>>,
     <<223, 0, 0, 0, 2, 1, 1, 1, 2>>,
     <<130, 145, 1, 192, 128, 195>>,
     <<129, 212, 5, 7, 1>>}

\* every first byte followed by 31 zero bytes: enough for the largest
\* fixstr and the 15 entries of the largest fixmap, each length field 0 and
\* each child the fixint 0
ZeroFilled == {<<b>> \o Fill(31, 0) : b \in Byte}

Buffers ==
    OneByte \cup NumBuffers \cup LenBuffers \cup FixstrBuffers \cup ExtBuffers
    \cup FixextBuffers \cup ContainerBuffers \cup FollowedBytes \cup Utf8Buffers
    \cup MapBuffers \cup ZeroFilled

(***************************************************************************)
(* The specification: a value is encoded and the encoding is parsed back   *)
(* (as tests::encode does) or its accessors are called; or a buffer is     *)
(* parsed, and then parsed through MsgPack::parse, or the bytes of the     *)
(* value it holds are parsed again with other bytes after them.            *)
(***************************************************************************)
\* the result variables before the call that sets them
NoResult == [kind |-> "None"]

Init ==
    /\ \/ pc = "value" /\ value \in Values /\ raw = <<>>
       \/ pc = "bytes" /\ value = MsgPack_Nil /\ raw \in Buffers
    /\ can_reserve \in BOOLEAN
    /\ encoded = <<>>
    /\ parsed = NoResult
    /\ followed = NoResult
    /\ message = NoResult
    /\ accessed = NoResult
    /\ capacity = Fill(8, 0)

\* let encoded = message.encode()
Encode ==
    /\ pc = "value"
    /\ encoded' = encode(value)
    /\ pc' = "encoded"
    /\ UNCHANGED <<value, raw, parsed, followed, message, accessed, capacity, can_reserve>>

\* parser::parse(&encoded)
Decode ==
    /\ pc = "encoded"
    /\ raw' = encoded
    /\ capacity' = LargestCapacity(encoded)
    /\ parsed' = Returned(parse(encoded), capacity', can_reserve)
    /\ pc' = "decoded"
    /\ UNCHANGED <<value, encoded, followed, message, accessed, can_reserve>>

\* value.is_X() and value.clone().as_X(), for one of the accessor pairs
Access ==
    /\ pc = "value"
    /\ \E name \in Accessors :
          accessed' = [accessor |-> name,
                       is |-> IsAccessor(name, value),
                       as |-> AsAccessor(name, value)]
    /\ pc' = "accessed"
    /\ UNCHANGED <<value, raw, encoded, parsed, followed, message, capacity, can_reserve>>

\* parser::parse(&raw)
Parse ==
    /\ pc = "bytes"
    /\ capacity' = LargestCapacity(raw)
    /\ parsed' = Returned(parse(raw), capacity', can_reserve)
    /\ pc' = "parsed"
    /\ UNCHANGED <<value, raw, encoded, followed, message, accessed, can_reserve>>

\* MsgPack::parse(&raw), on the buffer parser::parse was given
ParseMessage ==
    /\ pc = "parsed"
    /\ capacity' = LargestCapacity(raw)
    /\ message' = Returned(MsgPack_parse(raw), capacity', can_reserve)
    /\ pc' = "message"
    /\ UNCHANGED <<value, raw, encoded, parsed, followed, accessed, can_reserve>>

\* parser::parse on the bytes parser::parse reported as the value, with
\* other bytes after them
ParseFollowed ==
    /\ pc = "parsed"
    /\ parsed.kind = "Ok"
    /\ \E t \in Trailers :
          /\ raw' = SubSeq(raw, 1, parsed.size) \o t
          /\ capacity' = LargestCapacity(raw')
          /\ followed' = Returned(parse(raw'), capacity', can_reserve)
    /\ pc' = "followed"
    /\ UNCHANGED <<value, encoded, parsed, message, accessed, can_reserve>>

Next == Encode \/ Decode \/ Access \/ Parse \/ ParseMessage \/ ParseFollowed

Spec == Init /\ [][Next]_vars

(***************************************************************************)
(* Definitions the statements below share.                                 *)
(***************************************************************************)
\* the i64 whose two's-complement representation at the width of the
\* payload is the payload
SignExtend(payload) ==
    Fill(8 - Len(payload), IF payload[1] >= 128 THEN 255 ELSE 0) \o payload

\* signed and unsigned ranges lo <= v <= hi of words
SBetween(lo, v, hi) == SLe(lo, v) /\ SLe(v, hi)

\* the number a length field of 1, 2 or 4 bytes holds, when below 2^31
FieldValue(field) ==
    CASE Len(field) = 1 -> field[1]
      [] Len(field) = 2 -> field[1] * 256 + field[2]
      [] Len(field) = 4 -> field[1] * 16777216 + field[2] * 65536
                           + field[3] * 256 + field[4]

\* the length field declares more bytes than the avail that follow it
DeclaresMoreThan(field, avail) ==
    IF Len(field) = 4 /\ field[1] >= 128 THEN TRUE ELSE avail < FieldValue(field)

(***************************************************************************)
(* C1: round trip.  For every value tree without Float, parsing the        *)
(* encoding returns the value and consumes the whole encoding.             *)
(***************************************************************************)
C1_RoundTrip ==
    pc = "decoded" /\ value.kind # "Float" => parsed = Ok(value, Len(encoded))

(***************************************************************************)
(* C2: a tag 0xd0..0xd3 followed by its 1, 2, 4 or 8 payload bytes decodes *)
(* to the Int whose two's-complement big-endian representation is the      *)
(* payload, and consumes 2, 3, 5 or 9 bytes.                               *)
(***************************************************************************)
C2_SignedDecode ==
    pc = "parsed" /\ Len(raw) >= 1 /\ raw[1] \in 208..211
        /\ Len(raw) >= 1 + NumWidth(raw[1])
    => LET w == NumWidth(raw[1])
       IN  parsed = Ok(MsgPack_Int(SignExtend(SubSeq(raw, 2, 1 + w))), 1 + w)

(***************************************************************************)
(* C3: every Int v with -32 <= v <= 127 encodes to the one byte v mod 256. *)
(***************************************************************************)
C3_Fixint ==
    pc = "encoded" /\ value.kind = "Int"
    => \A n \in (-32)..127 : value.i = IntToWord(n) => encoded = <<n % 256>>

(***************************************************************************)
(* C4: an Int v outside -32..127 encodes with the narrowest of the tags    *)
(* 0xd0 (-128 <= v <= 127), 0xd1 (-32768 <= v <= 32767), 0xd2              *)
(* (-2^31 <= v <= 2^31 - 1) and 0xd3, followed by the two's-complement     *)
(* big-endian representation of v in 1, 2, 4 or 8 bytes.                   *)
(***************************************************************************)
C4_MinimalInt ==
    pc = "encoded" /\ value.kind = "Int"
        /\ ~SBetween(IntToWord(-32), value.i, IntToWord(127))
    => LET v == value.i
       IN  encoded =
             IF SBetween(IntToWord(-128), v, IntToWord(127))
             THEN <<208>> \o SubSeq(v, 8, 8)
             ELSE IF SBetween(IntToWord(-32768), v, IntToWord(32767))
             THEN <<209>> \o SubSeq(v, 7, 8)
             ELSE IF SBetween(Int32Floor, v, IntToWord(2147483647))
             THEN <<210>> \o SubSeq(v, 5, 8)
             ELSE <<211>> \o v

\* 2^31 is encoded as int 64, -129 as int 16
C4_Witness ==
    /\ pc = "encoded"
    /\ \/ value = MsgPack_Int(Int32Limit) /\ encoded = <<211, 0, 0, 0, 0, 128, 0, 0, 0>>
       \/ value = MsgPack_Int(IntToWord(-129)) /\ encoded = <<209, 255, 127>>

(***************************************************************************)
(* C5: a Uint u encodes with tag 0xcc and 1 byte iff u <= 0xff, 0xcd and   *)
(* 2 bytes iff 0x100 <= u <= 0xffff, 0xce and 4 bytes iff                  *)
(* 0x10000 <= u <= 0xffffffff, else 0xcf and 8 bytes, u big-endian.        *)
(***************************************************************************)
C5_MinimalUint ==
    pc = "encoded" /\ value.kind = "Uint"
    => LET u == value.u
       IN  encoded =
             IF ULe(u, IntToWord(255)) THEN <<204>> \o SubSeq(u, 8, 8)
             ELSE IF ULe(u, IntToWord(65535)) THEN <<205>> \o SubSeq(u, 7, 8)
             ELSE IF ULe(u, <<0, 0, 0, 0, 255, 255, 255, 255>>)
             THEN <<206>> \o SubSeq(u, 5, 8)
             ELSE <<207>> \o u

(***************************************************************************)
(* C6: the integer kind survives a round trip.  The encoding of a Uint     *)
(* starts with a tag in 0xcc..0xcf and parses to the same Uint; the        *)
(* encoding of an Int never parses to a Uint.                              *)
(***************************************************************************)
C6_KindPreserved ==
    pc = "decoded"
    => /\ value.kind = "Uint"
          => encoded[1] \in 204..207 /\ parsed.kind = "Ok" /\ parsed.value = value
       /\ value.kind = "Int"
          => ~(parsed.kind = "Ok" /\ parsed.value.kind = "Uint")

\* Uint(5), which a fixint could hold, comes back as Uint(5)
C6_Witness ==
    /\ pc = "decoded"
    /\ value = MsgPack_Uint(IntToWord(5))
    /\ encoded = <<204, 5>>
    /\ parsed.kind = "Ok" /\ parsed.value.kind = "Uint"

(***************************************************************************)
(* C7: String, Binary, Array and Map use the smallest header whose length  *)
(* field holds the count n: fixstr n <= 31, str8 n <= 255, str16           *)
(* n <= 65535, else str32; bin8 n <= 255, bin16 n <= 65535, else bin32;    *)
(* fixarray / fixmap n <= 15, array16 / map16 n <= 65535, else array32 /   *)
(* map32.                                                                  *)
(***************************************************************************)
C7_Header(kind, n) ==
    CASE kind = "String" ->
           IF n <= 31 THEN <<160 + n>>
           ELSE IF n <= 255 THEN <<217>> \o WriteBE(n, 1)
           ELSE IF n <= 65535 THEN <<218>> \o WriteBE(n, 2)
           ELSE <<219>> \o WriteBE(n, 4)
      [] kind = "Binary" ->
           IF n <= 255 THEN <<196>> \o WriteBE(n, 1)
           ELSE IF n <= 65535 THEN <<197>> \o WriteBE(n, 2)
           ELSE <<198>> \o WriteBE(n, 4)
      [] kind \in {"Array", "Map"} ->
           IF n <= 15 THEN <<(IF kind = "Array" THEN 144 ELSE 128) + n>>
           ELSE IF n <= 65535 THEN <<IF kind = "Array" THEN 220 ELSE 222>> \o WriteBE(n, 2)
           ELSE <<IF kind = "Array" THEN 221 ELSE 223>> \o WriteBE(n, 4)

C7_Count(v) ==
    CASE v.kind = "String" -> Len(v.s)
      [] v.kind = "Binary" -> Len(v.bin)
      [] v.kind = "Array" -> Len(v.items)
      [] v.kind = "Map" -> Len(v.entries)

C7_SmallestHeader ==
    pc = "encoded" /\ value.kind \in {"String", "Binary", "Array", "Map"}
    => LET h == C7_Header(value.kind, C7_Count(value))
       IN  Len(encoded) >= Len(h) /\ SubSeq(encoded, 1, Len(h)) = h

(***************************************************************************)
(* C8: an Extension whose payload has exactly 1, 2, 4, 8 or 16 bytes       *)
(* encodes as the fixext tag 0xd4..0xd8, the type id byte and the payload; *)
(* any other length (0 too) as a tag 0xc7, 0xc8 or 0xc9, the big-endian    *)
(* length in 1, 2 or 4 bytes, the type id byte (type_id mod 256) and the   *)
(* payload.                                                                *)
(***************************************************************************)
C8_Extension ==
    pc = "encoded" /\ value.kind = "Extension"
    => LET n == Len(value.value)
           tail == <<value.type_id % 256>> \o value.value
       IN  CASE n = 1 -> encoded = <<212>> \o tail
             [] n = 2 -> encoded = <<213>> \o tail
             [] n = 4 -> encoded = <<214>> \o tail
             [] n = 8 -> encoded = <<215>> \o tail
             [] n = 16 -> encoded = <<216>> \o tail
             [] OTHER ->
                  \E w \in {1, 2, 4} :
                     /\ encoded[1] = (CASE w = 1 -> 199 [] w = 2 -> 200 [] w = 4 -> 201)
                     /\ Len(encoded) = 1 + w + 1 + n
                     /\ FieldValue(SubSeq(encoded, 2, 1 + w)) = n
                     /\ SubSeq(encoded, 2 + w, Len(encoded)) = tail

\* 4 bytes of payload with a negative type id use fixext 4; 0 and 3 bytes
\* of payload use ext 8
C8_Witness ==
    /\ pc = "encoded"
    /\ \/ value = MsgPack_Extension(-1, Fill(4, 50)) /\ encoded = <<214, 255, 50, 50, 50, 50>>
       \/ value = MsgPack_Extension(27, <<>>) /\ encoded = <<199, 0, 27>>
       \/ value = MsgPack_Extension(27, Fill(3, 50)) /\ encoded = <<199, 3, 27, 50, 50, 50>>

(***************************************************************************)
(* C9: a truncated bin 8/16/32 or str 8/16/32 at top level fails with      *)
(* byte 1 when the length field is incomplete and with byte 1 + the width  *)
(* of the length field when fewer payload bytes follow than the field      *)
(* declares; a fixstr with fewer payload bytes than its low 5 bits declare *)
(* fails with byte 1.                                                      *)
(***************************************************************************)
C9_Width(tag) ==
    CASE tag \in {196, 217} -> 1
      [] tag \in {197, 218} -> 2
      [] tag \in {198, 219} -> 4

C9_TruncatedOffset ==
    pc = "parsed" /\ Len(raw) >= 1
    => /\ raw[1] \in {196, 197, 198, 217, 218, 219}
          => LET w == C9_Width(raw[1])
             IN  /\ Len(raw) < 1 + w => parsed = Err(1)
                 /\ Len(raw) >= 1 + w
                      /\ DeclaresMoreThan(SubSeq(raw, 2, 1 + w), Len(raw) - 1 - w)
                    => parsed = Err(1 + w)
       /\ raw[1] \in 160..191 /\ Len(raw) - 1 < raw[1] - 160
          => parsed = Err(1)

\* a bin 16 that declares 3 bytes and holds 1, a str 32 with half a length
\* field, a fixstr of 2 with 1 byte
C9_Witness ==
    /\ pc = "parsed"
    /\ \/ raw = <<197, 0, 3, 97>> /\ parsed = Err(3)
       \/ raw = <<219, 0, 0>> /\ parsed = Err(1)
       \/ raw = <<162, 97>> /\ parsed = Err(1)

(***************************************************************************)
(* C10: when the decoding of an array or map fails inside a child, the     *)
(* reported byte is the size of the header (1, 3 or 5) plus the bytes the  *)
(* preceding children consumed plus the offset the decoding of the failing *)
(* child reports.                                                          *)
(***************************************************************************)
C10_IsContainer(tag) == tag \in 128..159 \/ tag \in 220..223

C10_HeaderSize(tag) ==
    IF tag \in 128..159 THEN 1 ELSE IF tag \in {220, 222} THEN 3 ELSE 5

\* the children are decoded one after the other from rest, the bytes after
\* the header; consumed is what the children before took.  The offset in
\* rest of the failure of the first child that fails.
RECURSIVE C10_ChildFailure(_, _)
C10_ChildFailure(rest, consumed) ==
    LET r == parse(SliceFrom(rest, consumed))
    IN  IF r.kind = "Ok" THEN C10_ChildFailure(rest, consumed + r.size)
        ELSE consumed + r.byte

C10_NestedOffset ==
    pc = "parsed" /\ Len(raw) >= 1 /\ C10_IsContainer(raw[1])
        /\ Len(raw) >= C10_HeaderSize(raw[1]) /\ parsed.kind = "Err"
    => LET h == C10_HeaderSize(raw[1])
       IN  parsed.byte = h + C10_ChildFailure(SliceFrom(raw, h), 0)

\* [1, [0xc1]]: the second child is an array whose child is the reserved
\* tag at index 3; and an array 16 whose third child is a truncated bin 8
C10_Witness ==
    /\ pc = "parsed"
    /\ \/ raw = <<146, 1, 145, 193>> /\ parsed = Err(3)
       \/ raw = <<220, 0, 3, 1, 161, 97, 196, 2>> /\ parsed = Err(8)

(***************************************************************************)
(* C11: decoding an empty buffer, or a buffer whose first byte is 0xc1     *)
(* whatever follows it, fails with byte 0; when that happens to a child of *)
(* an array or map, at any depth, the byte the outermost call reports is   *)
(* the index in its buffer at which that child would have started.         *)
(***************************************************************************)
\* the children are decoded one after the other from rest; the offset in
\* rest at which the first child that fails starts
RECURSIVE C11_FailingChild(_, _)
C11_FailingChild(rest, consumed) ==
    LET r == parse(SliceFrom(rest, consumed))
    IN  IF r.kind = "Ok" THEN C11_FailingChild(rest, consumed + r.size)
        ELSE consumed

\* the index in buf of the value that is missing or is the reserved tag,
\* when that is why buf cannot be decoded; -1 when buf can be decoded or
\* cannot for another reason
RECURSIVE C11_ReservedAt(_)
C11_ReservedAt(buf) ==
    IF buf = <<>> \/ buf[1] = 193 THEN 0
    ELSE IF /\ C10_IsContainer(buf[1]) /\ Len(buf) >= C10_HeaderSize(buf[1])
            /\ parse(buf).kind = "Err"
         THEN LET h == C10_HeaderSize(buf[1])
                  start == h + C11_FailingChild(SliceFrom(buf, h), 0)
                  inner == C11_ReservedAt(SliceFrom(buf, start))
              IN  IF inner = -1 THEN -1 ELSE start + inner
    ELSE -1

C11_ReservedTag ==
    pc = "parsed" /\ C11_ReservedAt(raw) # -1 /\ parsed # CapacityPanic
    => parsed = Err(C11_ReservedAt(raw))

\* a fixmap of two entries: the key "a" is decoded, its value is the
\* reserved tag at index 3
C11_Witness ==
    pc = "parsed" /\ raw = <<130, 161, 97, 193>> /\ parsed = Err(3)

(***************************************************************************)
(* C12: a map whose header declares n entries is decoded from the 2n       *)
(* values that follow the header, one after the other; the result has      *)
(* exactly n entries, and entry i has the value at position 2i as its key  *)
(* and the value at position 2i + 1 as its value, in the order of the      *)
(* buffer, whether keys are equal or are arrays, maps or extensions.       *)
(***************************************************************************)
C12_IsMap(tag) == tag \in 128..143 \/ tag \in {222, 223}

\* the values decoded one after the other from rest, at most count of
\* them, up to the first that cannot be decoded; and the bytes they take
RECURSIVE C12_Consecutive(_, _, _, _)
C12_Consecutive(rest, count, consumed, values) ==
    IF count = 0 THEN [values |-> values, size |-> consumed]
    ELSE LET r == parse(SliceFrom(rest, consumed))
         IN  IF r.kind # "Ok" THEN [values |-> values, size |-> consumed]
             ELSE C12_Consecutive(rest, count - 1, consumed + r.size,
                                  Append(values, r.value))

C12_Pairing ==
    /\ pc \in {"parsed", "decoded"}
    /\ Len(raw) >= 1 /\ C12_IsMap(raw[1]) /\ parsed.kind = "Ok"
    => LET h == C10_HeaderSize(raw[1])
           n == IF h = 1 THEN raw[1] - 128 ELSE FieldValue(SubSeq(raw, 2, h))
           x == C12_Consecutive(SliceFrom(raw, h), 2 * n, 0, <<>>)
       IN  /\ Len(x.values) = 2 * n
           /\ parsed.size = h + x.size
           /\ parsed.value.kind = "Map"
           /\ Len(parsed.value.entries) = n
           /\ \A i \in 1..n :
                 parsed.value.entries[i] =
                     [key |-> x.values[2 * i - 1], value |-> x.values[2 * i]]

\* {"a": 1, "a": 2}: both entries are kept, in the order of the buffer
C12_Witness ==
    /\ pc = "parsed"
    /\ raw = <<130, 161, 97, 1, 161, 97, 2>>
    /\ parsed.kind = "Ok"
    /\ parsed.value.entries =
           <<[key |-> MsgPack_String(<<97>>), value |-> MsgPack_Int(Fill(7, 0) \o <<1>>)],
             [key |-> MsgPack_String(<<97>>), value |-> MsgPack_Int(Fill(7, 0) \o <<2>>)]>>

(***************************************************************************)
(* C13: when parser::parse decodes a buffer to (v, n), it decodes the      *)
(* first n bytes of that buffer followed by any other bytes to (v, n) as   *)
(* well; and MsgPack::parse returns Ok(v) exactly when parser::parse       *)
(* returns Ok((v, n)) on the same buffer, and the same error otherwise.    *)
(***************************************************************************)
C13_Frame ==
    /\ pc = "followed" => followed = parsed
    /\ pc = "message" =>
          /\ parsed.kind = "Ok" => message = [kind |-> "Ok", value |-> parsed.value]
          /\ parsed.kind # "Ok" => message = parsed
          /\ message.kind = "Ok" => parsed.kind = "Ok"

\* the map {"a": 1, "b": 2} followed by the bytes 0x00 0xff
C13_Witness ==
    /\ pc = "followed"
    /\ raw = <<130, 161, 97, 1, 161, 98, 2, 0, 255>>
    /\ parsed.kind = "Ok" /\ parsed.size = 7 /\ followed = parsed

(***************************************************************************)
(* C14: a buffer whose first byte is 0x00..0x7f decodes to Int(byte), one  *)
(* whose first byte is 0xe0..0xff to Int(byte - 256), 0xc0 to Nil, 0xc2 to *)
(* Boolean(false) and 0xc3 to Boolean(true), each taking exactly 1 byte;   *)
(* and Nil, Boolean(false) and Boolean(true) encode to exactly [0xc0],     *)
(* [0xc2] and [0xc3].                                                      *)
(***************************************************************************)
\* what the decoding of buf must be when its first byte is one of them
C14_Decodes(buf, result) ==
    /\ buf[1] <= 127 => result = Ok(MsgPack_Int(Fill(7, 0) \o <<buf[1]>>), 1)
    /\ buf[1] >= 224 => result = Ok(MsgPack_Int(Fill(7, 255) \o <<buf[1]>>), 1)
    /\ buf[1] = 192 => result = Ok(MsgPack_Nil, 1)
    /\ buf[1] = 194 => result = Ok(MsgPack_Boolean(FALSE), 1)
    /\ buf[1] = 195 => result = Ok(MsgPack_Boolean(TRUE), 1)

C14_SingleByte ==
    /\ pc = "parsed" /\ raw # <<>> => C14_Decodes(raw, parsed)
    /\ pc = "followed" /\ raw # <<>> => C14_Decodes(raw, followed)
    /\ pc = "encoded" =>
          /\ value = MsgPack_Nil => encoded = <<192>>
          /\ value = MsgPack_Boolean(FALSE) => encoded = <<194>>
          /\ value = MsgPack_Boolean(TRUE) => encoded = <<195>>

\* 0xe0 followed by another byte is Int(-32) and takes 1 byte
C14_Witness ==
    /\ pc = "parsed"
    /\ raw = <<224, 193>>
    /\ parsed = Ok(MsgPack_Int(<<255, 255, 255, 255, 255, 255, 255, 224>>), 1)

(***************************************************************************)
(* C15: for every value v and every variant X, is_X(v) is true exactly     *)
(* when v is of variant X; as_X(v) is Ok of the payload when v is of       *)
(* variant X, and otherwise a ConversionError whose attempted label names  *)
(* X and whose original, which recover() returns, is v unchanged.          *)
(***************************************************************************)
\* the variant the pair is_X / as_X is about
C15_Variant(name) ==
    CASE name = "int" -> "Int"
      [] name = "uint" -> "Uint"
      [] name = "float" -> "Float"
      [] name = "boolean" -> "Boolean"
      [] name = "nil" -> "Nil"
      [] name = "string" -> "String"
      [] name = "binary" -> "Binary"
      [] name = "array" -> "Array"
      [] name = "map" -> "Map"
      [] name = "extension" -> "Extension"

\* what the variant holds
C15_Payload(v) ==
    CASE v.kind = "Int" -> v.i
      [] v.kind = "Uint" -> v.u
      [] v.kind = "Float" -> v.f
      [] v.kind = "Boolean" -> v.b
      [] v.kind = "String" -> v.s
      [] v.kind = "Binary" -> v.bin
      [] v.kind = "Array" -> v.items
      [] v.kind = "Map" -> v.entries
      [] v.kind = "Extension" -> [type_id |-> v.type_id, value |-> v.value]

C15_Accessors ==
    pc = "accessed" /\ accessed.accessor # "some_int"
    => /\ accessed.is = (value.kind = C15_Variant(accessed.accessor))
       /\ accessed.accessor # "nil" =>
             IF value.kind = C15_Variant(accessed.accessor)
             THEN accessed.as = [kind |-> "Ok", value |-> C15_Payload(value)]
             ELSE /\ accessed.as.kind = "ConversionError"
                  /\ accessed.as.attempted = accessed.accessor
                  /\ recover(accessed.as) = value

\* Float(1.0).as_int() is an error that names "int" and gives the float back
C15_Witness ==
    /\ pc = "accessed"
    /\ accessed.accessor = "int"
    /\ value = MsgPack_Float(<<63, 240, 0, 0, 0, 0, 0, 0>>)
    /\ accessed.is = FALSE
    /\ accessed.as.kind = "ConversionError"
    /\ accessed.as.attempted = "int"
    /\ recover(accessed.as) = value

(***************************************************************************)
(* C16: is_some_int(v) is true exactly when v is an Int or a Uint;         *)
(* as_some_int(Int(n)) is Ok(n), and as_some_int(Uint(u)) is Ok(n) with n  *)
(* numerically equal to u, for every u in 0..2^64 - 1.                     *)
(***************************************************************************)
\* the i64 n and the u64 u are the same number: n is not negative and has
\* the bits of u
C16_SameNumber(n, u) == n[1] < 128 /\ n = u

C16_SomeInt ==
    pc = "accessed" /\ accessed.accessor = "some_int"
    => /\ accessed.is = (value.kind \in {"Int", "Uint"})
       /\ value.kind = "Int" => accessed.as = [kind |-> "Ok", value |-> value.i]
       /\ value.kind = "Uint" =>
             accessed.as.kind = "Ok" /\ C16_SameNumber(accessed.as.value, value.u)

(***************************************************************************)
(* C17: a fixstr, str 8, str 16 or str 32 whose payload bytes are all      *)
(* present but are not valid UTF-8 fails with the byte at which the        *)
(* payload starts (1, 2, 3 or 5); no String is produced from a payload     *)
(* that is not valid UTF-8.                                                *)
(***************************************************************************)
C17_IsStr(tag) == tag \in 160..191 \/ tag \in {217, 218, 219}

C17_PayloadStart(tag) ==
    CASE tag \in 160..191 -> 1 [] tag = 217 -> 2 [] tag = 218 -> 3 [] tag = 219 -> 5

C17_IsContinuation(b) == b \in 128..191

\* valid UTF-8: a sequence of scalar values U+0000..U+10FFFF other than
\* the surrogates U+D800..U+DFFF, each in its shortest form of 1 to 4 bytes
RECURSIVE C17_ValidUtf8(_)
C17_ValidUtf8(b) ==
    IF b = <<>> THEN TRUE
    ELSE IF b[1] <= 127 THEN C17_ValidUtf8(SubSeq(b, 2, Len(b)))
    ELSE IF b[1] \in 192..223
         THEN /\ Len(b) >= 2 /\ C17_IsContinuation(b[2])
              /\ (b[1] - 192) * 64 + (b[2] - 128) >= 128
              /\ C17_ValidUtf8(SubSeq(b, 3, Len(b)))
    ELSE IF b[1] \in 224..239
         THEN /\ Len(b) >= 3 /\ C17_IsContinuation(b[2]) /\ C17_IsContinuation(b[3])
              /\ LET cp == (b[1] - 224) * 4096 + (b[2] - 128) * 64 + (b[3] - 128)
                 IN  cp >= 2048 /\ cp \notin 55296..57343
              /\ C17_ValidUtf8(SubSeq(b, 4, Len(b)))
    ELSE IF b[1] \in 240..247
         THEN /\ Len(b) >= 4 /\ C17_IsContinuation(b[2]) /\ C17_IsContinuation(b[3])
              /\ C17_IsContinuation(b[4])
              /\ LET cp == (b[1] - 240) * 262144 + (b[2] - 128) * 4096
                           + (b[3] - 128) * 64 + (b[4] - 128)
                 IN  cp >= 65536 /\ cp <= 1114111
              /\ C17_ValidUtf8(SubSeq(b, 5, Len(b)))
    ELSE FALSE

C17_InvalidUtf8 ==
    pc = "parsed" /\ raw # <<>> /\ C17_IsStr(raw[1])
    => LET h == C17_PayloadStart(raw[1])
       IN  /\ /\ Len(raw) >= h
              /\ IF h = 1 THEN Len(raw) - 1 >= raw[1] - 160
                 ELSE ~DeclaresMoreThan(SubSeq(raw, 2, h), Len(raw) - h)
              /\ LET len == IF h = 1 THEN raw[1] - 160 ELSE FieldValue(SubSeq(raw, 2, h))
                 IN  ~C17_ValidUtf8(SubSeq(raw, h + 1, h + len))
              => parsed = Err(h)
           /\ parsed.kind = "Ok" =>
                 parsed.value.kind = "String" /\ C17_ValidUtf8(parsed.value.s)

\* a str 16 of 3 bytes that are the surrogate U+D800 in UTF-8 form
C17_Witness ==
    pc = "parsed" /\ raw = <<218, 0, 3, 237, 160, 128>> /\ parsed = Err(3)

(***************************************************************************)
(* C18: encode is total: for every value tree it returns a sequence of     *)
(* bytes that is not empty, and it never fails or panics.                  *)
(***************************************************************************)
C18_EncodeTotal ==
    pc = "encoded"
    => /\ Len(encoded) >= 1
       /\ \A i \in 1..Len(encoded) : encoded[i] \in 0..255

\* the empty string, and an array that holds an empty array and an empty
\* map, are encoded to a tag at least
C18_Witness ==
    /\ pc = "encoded"
    /\ \/ value = MsgPack_String(<<>>) /\ encoded = <<160>>
       \/ value.kind = "Array" /\ Len(value.items) >= 1
            /\ \A i \in 1..Len(value.items) : value.items[i].kind \in {"Array", "Map"}

(***************************************************************************)
(* C19: an ext 8, ext 16 or ext 32 whose length field is incomplete fails  *)
(* with byte 1; one whose length field is complete but whose type id or    *)
(* payload is missing or short fails with the byte right after the length  *)
(* field (2, 3 or 5).                                                      *)
(***************************************************************************)
C19_Width(tag) == CASE tag = 199 -> 1 [] tag = 200 -> 2 [] tag = 201 -> 4

C19_ExtShortfall ==
    pc = "parsed" /\ raw # <<>> /\ raw[1] \in {199, 200, 201}
    => LET w == C19_Width(raw[1])
       IN  /\ Len(raw) < 1 + w => parsed = Err(1)
           /\ Len(raw) >= 1 + w
                /\ DeclaresMoreThan(SubSeq(raw, 2, 1 + w), Len(raw) - 1 - w - 1)
              => parsed = Err(1 + w)

(***************************************************************************)
(* C20: the encoding of an Array is a header that holds the number of      *)
(* elements followed by the encodings of the elements in order; the        *)
(* encoding of a Map is a header that holds the number of entries followed *)
(* by the encodings of key 0, value 0, key 1, value 1, ...; nothing is     *)
(* reordered, dropped or put between them.                                 *)
(***************************************************************************)
\* the headers that hold the count n: the fix form (tag fix + n) when
\* n <= 15, the 16 bit form when n <= 65535, the 32 bit form
C20_Headers(fix, tag16, n) ==
    (IF n <= 15 THEN {<<fix + n>>} ELSE {})
    \cup (IF n <= 65535 THEN {<<tag16, n \div 256, n % 256>>} ELSE {})
    \cup {<<tag16 + 1, n \div 16777216, (n \div 65536) % 256, (n \div 256) % 256, n % 256>>}

RECURSIVE C20_Join(_)
C20_Join(seqs) == IF seqs = <<>> THEN <<>> ELSE Head(seqs) \o C20_Join(Tail(seqs))

\* key 0, value 0, key 1, value 1, ...
C20_KeysAndValues(entries) ==
    [i \in 1..(2 * Len(entries)) |->
        IF i % 2 = 1 THEN entries[(i + 1) \div 2].key ELSE entries[i \div 2].value]

C20_Concatenation ==
    pc = "encoded"
    => /\ value.kind = "Array" =>
             \E hdr \in C20_Headers(144, 220, Len(value.items)) :
                 encoded = hdr \o C20_Join([i \in 1..Len(value.items) |->
                                               encode(value.items[i])])
       /\ value.kind = "Map" =>
             LET children == C20_KeysAndValues(value.entries)
             IN  \E hdr \in C20_Headers(128, 222, Len(value.entries)) :
                     encoded = hdr \o C20_Join([i \in 1..Len(children) |->
                                                   encode(children[i])])

\* {"a": 2u, 1: nil}: the keys stay where they are, each before its value
C20_Witness ==
    /\ pc = "encoded"
    /\ value = MsgPack_Map(<<[key |-> MsgPack_String(<<97>>),
                              value |-> MsgPack_Uint(Fill(7, 0) \o <<2>>)],
                             [key |-> MsgPack_Int(Fill(7, 0) \o <<1>>),
                              value |-> MsgPack_Nil]>>)
    /\ encoded = <<130, 161, 97, 204, 2, 1, 192>>

(***************************************************************************)
(* C21: the number of element slots that decoding reserves for an array or *)
(* map is at most the number of bytes that remain in the buffer after the  *)
(* header; a header that declares a count larger than the remaining bytes  *)
(* is rejected with a ParseError, without storage in proportion to the     *)
(* declared count being reserved first.                                    *)
(***************************************************************************)
C21_BoundedReservation ==
    /\ pc = "parsed" /\ raw # <<>> /\ C10_IsContainer(raw[1])
    /\ Len(raw) >= C10_HeaderSize(raw[1])
    => LET remaining == Len(raw) - C10_HeaderSize(raw[1])
           h == C10_HeaderSize(raw[1])
           declares_more == IF h = 1 THEN raw[1] % 16 > remaining
                            ELSE DeclaresMoreThan(SubSeq(raw, 2, h), remaining)
       IN  /\ ULe(capacity, IntToWord(remaining))
           /\ declares_more => parsed.kind = "Err"

(***************************************************************************)
(* C22: decoding is total and memory-safe: for every buffer, truncated,    *)
(* malformed or adversarial, parser::parse returns Ok or Err(ParseError)   *)
(* and never panics.                                                       *)
(***************************************************************************)
C22_Total ==
    /\ pc \in {"parsed", "decoded"} => parsed.kind \in {"Ok", "Err"}
    /\ pc = "followed" => followed.kind \in {"Ok", "Err"}
    /\ pc = "message" => message.kind \in {"Ok", "Err"}

(***************************************************************************)
(* C23: when parser::parse returns Ok((v, n)) for the buffer b,            *)
(* 1 <= n <= len(b); and in parse_array the cursor is never larger than    *)
(* the length of the slice parse_array was given, and it grows with every  *)
(* element that is parsed.                                                 *)
(***************************************************************************)
C23_Consumed ==
    /\ pc \in {"parsed", "decoded"} /\ parsed.kind = "Ok"
       => 1 <= parsed.size /\ parsed.size <= Len(raw)
    /\ pc = "followed" /\ followed.kind = "Ok"
       => 1 <= followed.size /\ followed.size <= Len(raw)
    /\ pc \in {"parsed", "decoded"} /\ ReservingHeader(raw).h # 0
       => LET header == ReservingHeader(raw)
              slice == SliceFrom(raw, header.h)
              trace == CursorTrace(slice, header.slots, 0, <<0>>)
          IN  \A i \in 1..Len(trace) :
                 /\ trace[i] <= Len(slice)
                 /\ i < Len(trace) => trace[i] < trace[i + 1]

\* the map of tests::decode_from_json: 29 bytes, and the cursor of
\* parse_array after "compact", true, "schema" and the array
C23_Witness ==
    /\ pc = "parsed"
    /\ parsed.kind = "Ok" /\ parsed.size = 29 /\ Len(raw) = 29
    /\ CursorTrace(SliceFrom(raw, 1), ReservingHeader(raw).slots, 0, <<0>>)
           = <<0, 8, 9, 16, 28>>

(***************************************************************************)
(* C24: when parser::parse returns Err(ParseError{byte}) for the buffer b, *)
(* from whatever depth the error comes, 0 <= byte <= len(b): the byte is   *)
(* an index of the buffer or the position right after its end.             *)
(***************************************************************************)
C24_OffsetInBuffer ==
    /\ pc \in {"parsed", "decoded"} /\ parsed.kind = "Err"
       => 0 <= parsed.byte /\ parsed.byte <= Len(raw)
    /\ pc = "message" /\ message.kind = "Err"
       => 0 <= message.byte /\ message.byte <= Len(raw)
    /\ pc = "followed" /\ followed.kind = "Err"
       => 0 <= followed.byte /\ followed.byte <= Len(raw)

\* [1, [bin 8 of 2 bytes, cut after its length]]: the error of the bin 8,
\* two arrays deep, is at the end of the buffer
C24_Witness ==
    pc = "parsed" /\ raw = <<146, 1, 145, 196, 2>> /\ parsed = Err(5)

(***************************************************************************)
(* C25: the dispatch of parse on the first byte is exhaustive.  Every      *)
(* first byte satisfies the condition of exactly one branch, so the last   *)
(* line of parse, Err(ParseError{byte: 0}), is never reached: the only     *)
(* Err with byte 0 for a buffer that is not empty is the one of the        *)
(* branch of 0xc1.  0xc1 is the only first byte that fails whatever        *)
(* follows it: every other first byte decodes when enough zero bytes       *)
(* follow it.                                                              *)
(***************************************************************************)
C25_Exhaustive ==
    pc = "parsed" /\ raw # <<>>
    => /\ Cardinality(Branches(raw[1])) = 1
       /\ raw[1] = 193 => parsed = Err(0)
       /\ raw[1] # 193 => parsed # Err(0)
       /\ raw \in ZeroFilled /\ raw[1] # 193 => parsed.kind = "Ok"

\* the last tag, map 32, with a count of 0 and bytes after it, and the
\* reserved tag with the same bytes after it
C25_Witness ==
    /\ pc = "parsed" /\ raw \in ZeroFilled
    /\ \/ raw[1] = 223 /\ parsed = Ok(MsgPack_Map(<<>>), 5)
       \/ raw[1] = 193 /\ parsed = Err(0)

(***************************************************************************)
(* C26: the unreachable!() of parse_map never fires.  When                 *)
(* parse_array(raw, k) returns Ok its result has exactly k elements, so    *)
(* the test elements.len() != length * 2 is false, both                    *)
(* iter.next().unwrap() of each turn find an element, and a map that       *)
(* decodes has exactly the count of entries of its header.                 *)
(***************************************************************************)
C26_IsUnreachable(result) ==
    result = [kind |-> "Panic", what |-> "unreachable"]

C26_Unreachable ==
    /\ ~C26_IsUnreachable(parsed)
    /\ ~C26_IsUnreachable(followed)
    /\ ~C26_IsUnreachable(message)
    /\ pc = "parsed" /\ ReservingHeader(raw).h # 0
       => LET header == ReservingHeader(raw)
              r == parse_array(SliceFrom(raw, header.h), header.slots)
          IN  /\ r.kind = "Ok" => IntToWord(Len(r.value)) = header.slots
              /\ parsed.kind = "Ok" /\ parsed.value.kind = "Map"
                 => WordDouble(IntToWord(Len(parsed.value.entries))) = header.slots

\* {[1]: nil, {}: true}: four values from parse_array, two entries
C26_Witness ==
    /\ pc = "parsed" /\ raw = <<130, 145, 1, 192, 128, 195>>
    /\ parse_array(SliceFrom(raw, 1), IntToWord(4)).kind = "Ok"
    /\ Len(parse_array(SliceFrom(raw, 1), IntToWord(4)).value) = 4
    /\ parsed.kind = "Ok" /\ Len(parsed.value.entries) = 2
====
